---- MODULE Spec2Model ----
(***************************************************************************)
(* A model of the Cloudinary client library in service.go: Dial, the       *)
(* signed multipart upload requests (UploadImageFile, UploadImageURL,      *)
(* newRequest, doRequest), GetResizedImageURL and Delete.                  *)
(*                                                                         *)
(* Go strings are sequences of one-character strings, so that parsing,     *)
(* splitting, joining, escaping and decimal formatting are computed        *)
(* character by character.  The net/url, strings, strconv and fmt calls    *)
(* the code makes are modelled by what those functions do on the           *)
(* printable ASCII characters (plus tab and newline).  SHA-1 is an         *)
(* injective constructor over its message: the text sha1hex(m).            *)
(***************************************************************************)
EXTENDS Integers, Sequences, FiniteSets, TLC

VARIABLES
    conn,        \* the connection string handed to Dial, with the parts it was built from
    dialled,     \* TRUE once Dial has returned
    svc,         \* the *Service Dial returned (Nil when it returned none)
    dialErr,     \* the error Dial returned (NoErr when none)
    urls,        \* the *url.URL objects callers hold, indexed by address
    lastResize,  \* the last GetResizedImageURL call: its arguments, the URL before it, its outcome
    nResizes,    \* how many GetResizedImageURL calls have been made
    crashed,     \* TRUE once a goroutine panicked (the process is gone)
    now,         \* time.Now().Unix()
    bufs,        \* the heap of bytes.Buffer/multipart.Writer pairs, indexed by address
    calls,       \* per caller: the upload call in flight (position, arguments, request, outcome)
    deleted      \* the outcomes of the Delete calls made

vars == <<conn, dialled, svc, dialErr, urls, lastResize, nResizes, crashed, now, bufs, calls, deleted>>

(***************************************************************************)
(* Bounds of the model.                                                    *)
(***************************************************************************)
MaxResizes == 2      \* GetResizedImageURL calls on one URL object
NumCallers == 2      \* concurrent callers of one service handle

(***************************************************************************)
(* Characters and strings.                                                 *)
(***************************************************************************)
Ascii == <<" ","!","\"","#","$","%","&","'","(",")","*","+",",","-",".","/","0","1","2","3","4","5","6","7","8","9",":",";","<","=",">","?","@","A","B","C","D","E","F","G","H","I","J","K","L","M","N","O","P","Q","R","S","T","U","V","W","X","Y","Z","[","\\","]","^","_","grave","a","b","c","d","e","f","g","h","i","j","k","l","m","n","o","p","q","r","s","t","u","v","w","x","y","z","{","|","}","~">>

\* The byte value of each character: tab, newline and the printable characters.
ByteOf ==
    [c \in {"\t", "\n"} \cup {Ascii[i] : i \in 1..Len(Ascii)} |->
        IF c = "\t" THEN 9
        ELSE IF c = "\n" THEN 10
        ELSE 31 + (CHOOSE i \in 1..Len(Ascii) : Ascii[i] = c)]

\* The byte value of a character.
Ord(c) == ByteOf[c]

\* The character of a byte value (bytes outside printable ASCII print as "\\x"; byte 96 is
\* written "grave").
Chr(n) == IF n >= 32 /\ n <= 126 THEN Ascii[n - 31] ELSE "\\x"

\* lo <= n && n <= hi, the comparison net/url makes on a byte.
Between(n, lo, hi) == n >= lo /\ n <= hi

IsLower(c) == Between(Ord(c), 97, 122)
IsUpper(c) == Between(Ord(c), 65, 90)
IsLetter(c) == Between(Ord(c), 97, 122) \/ Between(Ord(c), 65, 90)
IsDigit(c) == Between(Ord(c), 48, 57)
IsAlnumByte(n) == Between(n, 97, 122) \/ Between(n, 65, 90) \/ Between(n, 48, 57)
IsAlnum(c) == IsAlnumByte(Ord(c))

Nil == [nil |-> TRUE]
NoErr == "nil"

\* strings.Index(s, c) as a 1-based position, 0 when c does not occur.
Index(s, c) ==
    IF \E i \in 1..Len(s) : s[i] = c
    THEN CHOOSE i \in 1..Len(s) : s[i] = c /\ \A j \in 1..(i - 1) : s[j] # c
    ELSE 0

\* strings.LastIndex(s, c) as a 1-based position, 0 when c does not occur.
LastIndex(s, c) ==
    IF \E i \in 1..Len(s) : s[i] = c
    THEN CHOOSE i \in 1..Len(s) : s[i] = c /\ \A j \in (i + 1)..Len(s) : s[j] # c
    ELSE 0

\* strings.Count(s, c)
Count(s, c) == Cardinality({i \in 1..Len(s) : s[i] = c})

HasPrefix(s, p) == Len(s) >= Len(p) /\ SubSeq(s, 1, Len(p)) = p

\* strings.Contains(s, sub)
Contains(s, sub) ==
    \E i \in 0..(Len(s) - Len(sub)) : SubSeq(s, i + 1, i + Len(sub)) = sub

\* strings.ToLower
LowerChar(c, n) == IF Between(n, 65, 90) THEN Chr(n + 32) ELSE c
ToLower(s) == [i \in 1..Len(s) |-> LowerChar(s[i], Ord(s[i]))]

\* strings.Split(s, "/"): the segments between the separators, at least one.
RECURSIVE Split(_, _)
Split(s, sep) ==
    LET i == Index(s, sep)
    IN  IF i = 0 THEN <<s>>
        ELSE <<SubSeq(s, 1, i - 1)>> \o Split(SubSeq(s, i + 1, Len(s)), sep)

\* strings.Join(parts, "/")
RECURSIVE Join(_, _)
Join(parts, sep) ==
    IF Len(parts) = 0 THEN <<>>
    ELSE IF Len(parts) = 1 THEN parts[1]
    ELSE parts[1] \o <<sep>> \o Join(Tail(parts), sep)

\* strconv.FormatInt(n, 10) and fmt's %d: the decimal digits, most significant first.
RECURSIVE Digits(_)
Digits(n) == IF n < 10 THEN <<Chr(48 + n)>> ELSE Digits(n \div 10) \o <<Chr(48 + (n % 10))>>

FormatInt(n) == IF n < 0 THEN <<"-">> \o Digits(0 - n) ELSE Digits(n)

(***************************************************************************)
(* net/url: escaping.                                                      *)
(***************************************************************************)
IsHexByte(n) == Between(n, 48, 57) \/ Between(n, 97, 102) \/ Between(n, 65, 70)
IsHex(c) == IsHexByte(Ord(c))

UnHexByte(n) ==
    IF Between(n, 48, 57) THEN n - 48
    ELSE IF n >= 97 THEN n - 97 + 10
    ELSE n - 65 + 10
UnHex(c) == UnHexByte(Ord(c))

\* shouldEscape(c, mode) for the modes "host", "path", "userinfo", "fragment".
ShouldEscape(c, mode) ==
    IF IsAlnum(c) THEN FALSE
    ELSE IF mode = "host" /\ c \in {"!", "$", "&", "'", "(", ")", "*", "+", ",", ";", "=", ":", "[", "]", "<", ">", "\""}
    THEN FALSE
    ELSE IF c \in {"-", "_", ".", "~"} THEN FALSE
    ELSE IF c \in {"$", "&", "+", ",", "/", ":", ";", "=", "?", "@"} /\ mode = "path"
    THEN c = "?"
    ELSE IF c \in {"$", "&", "+", ",", "/", ":", ";", "=", "?", "@"} /\ mode = "userinfo"
    THEN c \in {"@", "/", "?", ":"}
    ELSE IF c \in {"$", "&", "+", ",", "/", ":", ";", "=", "?", "@"} /\ mode = "fragment"
    THEN FALSE
    ELSE IF mode = "fragment" /\ c \in {"!", "(", ")", "*"} THEN FALSE
    ELSE TRUE

\* "%" and the two upper-case hex digits of a byte.
PercentHex(n) == <<"%", Chr(IF n \div 16 < 10 THEN 48 + (n \div 16) ELSE 55 + (n \div 16)),
                        Chr(IF n % 16 < 10 THEN 48 + (n % 16) ELSE 55 + (n % 16))>>

\* escape(s, mode): percent-encode every character shouldEscape names.
RECURSIVE Escape(_, _)
Escape(s, mode) ==
    IF Len(s) = 0 THEN <<>>
    ELSE (IF ShouldEscape(s[1], mode) THEN PercentHex(Ord(s[1])) ELSE <<s[1]>>)
             \o Escape(Tail(s), mode)

\* The first pass of unescape(s, mode): the error it returns, NoErr when well formed.
RECURSIVE UnescapeErr(_, _)
UnescapeErr(s, mode) ==
    IF Len(s) = 0 THEN NoErr
    ELSE IF s[1] = "%"
    THEN IF Len(s) < 3 \/ ~IsHex(s[2]) \/ ~IsHex(s[3]) THEN "invalid URL escape"
         ELSE IF mode = "host" /\ UnHex(s[2]) < 8 /\ SubSeq(s, 1, 3) # <<"%", "2", "5">>
         THEN "invalid URL escape"
         ELSE UnescapeErr(SubSeq(s, 4, Len(s)), mode)
    ELSE IF mode = "host" /\ ShouldEscape(s[1], "host")
    THEN "invalid character in host name"
    ELSE UnescapeErr(Tail(s), mode)

\* The second pass of unescape: every %XY replaced by the byte it names.
RECURSIVE UnescapeText(_)
UnescapeText(s) ==
    IF Len(s) = 0 THEN <<>>
    ELSE IF s[1] = "%" /\ Len(s) >= 3
    THEN <<Chr(16 * UnHex(s[2]) + UnHex(s[3]))>> \o UnescapeText(SubSeq(s, 4, Len(s)))
    ELSE <<s[1]>> \o UnescapeText(Tail(s))

\* unescape(s, mode)
Unescaped(s, e) ==
    IF e # NoErr THEN [text |-> <<>>, err |-> e] ELSE [text |-> UnescapeText(s), err |-> NoErr]

Unescape(s, mode) == Unescaped(s, UnescapeErr(s, mode))

\* validEncoded(s, encodePath)
ValidEncoded(s) ==
    \A i \in 1..Len(s) :
        \/ s[i] \in {"!", "$", "&", "'", "(", ")", "*", "+", ",", ";", "=", ":", "@", "[", "]", "%"}
        \/ ~ShouldEscape(s[i], "path")

(***************************************************************************)
(* net/url: url.Parse and URL.String.                                      *)
(***************************************************************************)
NoUser == [set |-> FALSE, Username |-> <<>>, Password |-> <<>>, PasswordSet |-> FALSE]

EmptyURL ==
    [Scheme |-> <<>>, Opaque |-> <<>>, User |-> NoUser, Host |-> <<>>, Path |-> <<>>,
     RawPath |-> <<>>, ForceQuery |-> FALSE, RawQuery |-> <<>>, Fragment |-> <<>>]

\* getscheme(rawurl): the scheme before the first ":", when the text before it is one.
RECURSIVE GetSchemeAt(_, _)
GetSchemeAt(raw, i) ==
    IF i > Len(raw) THEN [scheme |-> <<>>, rest |-> raw, err |-> NoErr]
    ELSE IF IsLetter(raw[i]) THEN GetSchemeAt(raw, i + 1)
    ELSE IF IsDigit(raw[i]) \/ raw[i] \in {"+", "-", "."}
    THEN IF i = 1 THEN [scheme |-> <<>>, rest |-> raw, err |-> NoErr]
         ELSE GetSchemeAt(raw, i + 1)
    ELSE IF raw[i] = ":"
    THEN IF i = 1 THEN [scheme |-> <<>>, rest |-> <<>>, err |-> "missing protocol scheme"]
         ELSE [scheme |-> SubSeq(raw, 1, i - 1), rest |-> SubSeq(raw, i + 1, Len(raw)), err |-> NoErr]
    ELSE [scheme |-> <<>>, rest |-> raw, err |-> NoErr]

GetScheme(raw) == GetSchemeAt(raw, 1)

\* split(s, sep, cutc): s cut at the first sep; the separator is dropped when cutc.
SplitAt(s, sep, cutc) ==
    LET i == Index(s, sep)
    IN  IF i = 0 THEN <<s, <<>>>>
        ELSE IF cutc THEN <<SubSeq(s, 1, i - 1), SubSeq(s, i + 1, Len(s))>>
        ELSE <<SubSeq(s, 1, i - 1), SubSeq(s, i, Len(s))>>

\* validUserinfo(s)
ValidUserinfo(s) ==
    \A i \in 1..Len(s) :
        \/ IsAlnum(s[i])
        \/ s[i] \in {"-", ".", "_", ":", "~", "!", "$", "&", "'", "(", ")", "*", "+", ",", ";", "=", "%", "@"}

\* validOptionalPort(port)
ValidOptionalPort(port) ==
    \/ Len(port) = 0
    \/ port[1] = ":" /\ \A i \in 2..Len(port) : IsDigit(port[i])

\* parseHost(host), for hosts that are not IPv6 literals.
ParseHost(host) ==
    LET i == LastIndex(host, ":")
    IN  IF i # 0 /\ ~ValidOptionalPort(SubSeq(host, i, Len(host)))
        THEN [text |-> <<>>, err |-> "invalid port after host"]
        ELSE Unescape(host, "host")

\* The error return of parseAuthority.
AuthorityError(e) == [User |-> NoUser, Host |-> <<>>, err |-> e]

\* User(username) and UserPassword(username, password)
User(username) == [set |-> TRUE, Username |-> username, Password |-> <<>>, PasswordSet |-> FALSE]
UserPassword(username, password) ==
    [set |-> TRUE, Username |-> username, Password |-> password, PasswordSet |-> TRUE]

\* parseAuthority from validUserinfo on: name and pass are what unescape returned for the
\* text before and after the first ":" of the user information.
ParseUserinfo(userinfo, host, name, pass) ==
    IF ~ValidUserinfo(userinfo) THEN AuthorityError("net/url: invalid userinfo")
    ELSE IF name.err # NoErr THEN AuthorityError(name.err)
    ELSE IF Index(userinfo, ":") = 0 THEN [User |-> User(name.text), Host |-> host, err |-> NoErr]
    ELSE IF pass.err # NoErr THEN AuthorityError(pass.err)
    ELSE [User |-> UserPassword(name.text, pass.text), Host |-> host, err |-> NoErr]

\* parseAuthority from the return of parseHost on: i is the position of the last "@".
ParseAuthorityHost(authority, i, h) ==
    IF h.err # NoErr THEN AuthorityError(h.err)
    ELSE IF i = 0 THEN [User |-> NoUser, Host |-> h.text, err |-> NoErr]
    ELSE ParseUserinfo(SubSeq(authority, 1, i - 1), h.text,
                       Unescape(SplitAt(SubSeq(authority, 1, i - 1), ":", TRUE)[1], "userinfo"),
                       Unescape(SplitAt(SubSeq(authority, 1, i - 1), ":", TRUE)[2], "userinfo"))

ParseAuthorityAt(authority, i) ==
    ParseAuthorityHost(authority, i, ParseHost(SubSeq(authority, i + 1, Len(authority))))

\* parseAuthority(authority): the user information before the last "@" and the host after it.
ParseAuthority(authority) == ParseAuthorityAt(authority, LastIndex(authority, "@"))

URLError(e) == [url |-> EmptyURL, err |-> e]

\* URL.setPath(p): Path is the decoded path, RawPath is kept when it is not the default encoding.
SetUnescapedPath(u, p, path) ==
    IF path.err # NoErr THEN URLError(path.err)
    ELSE [url |-> [u EXCEPT !.Path = path.text,
                            !.RawPath = IF Escape(path.text, "path") = p THEN <<>> ELSE p],
          err |-> NoErr]

SetPath(u, p) == SetUnescapedPath(u, p, Unescape(p, "path"))

\* parse from the return of parseAuthority on: the user and the host are stored, the path set.
ParsePath(u, auth, rest) ==
    IF auth.err # NoErr THEN URLError(auth.err)
    ELSE SetPath([u EXCEPT !.User = auth.User, !.Host = auth.Host], rest)

\* No authority to read.
NoAuthority == [User |-> NoUser, Host |-> <<>>, err |-> NoErr]

\* parse once the scheme and the query are cut off: the opaque form, the authority, the path.
ParseHier(u, rest) ==
    IF ~HasPrefix(rest, <<"/">>) /\ Len(u.Scheme) > 0
    THEN [url |-> [u EXCEPT !.Opaque = rest], err |-> NoErr]
    ELSE IF /\ ~HasPrefix(rest, <<"/">>) /\ Index(rest, ":") > 0
            /\ (Index(rest, "/") = 0 \/ Index(rest, ":") < Index(rest, "/"))
    THEN URLError("first path segment in URL cannot contain colon")
    ELSE IF HasPrefix(rest, <<"/", "/">>) /\ (Len(u.Scheme) > 0 \/ ~HasPrefix(rest, <<"/", "/", "/">>))
    THEN ParsePath(u, ParseAuthority(SplitAt(SubSeq(rest, 3, Len(rest)), "/", FALSE)[1]),
                   SplitAt(SubSeq(rest, 3, Len(rest)), "/", FALSE)[2])
    ELSE ParsePath(u, NoAuthority, rest)

\* parse from the return of getscheme on: the scheme is lower-cased and the query cut off.
ParseQuery(sch) ==
    IF sch.err # NoErr THEN URLError(sch.err)
    ELSE IF Len(sch.rest) > 0 /\ sch.rest[Len(sch.rest)] = "?" /\ Count(sch.rest, "?") = 1
    THEN ParseHier([EmptyURL EXCEPT !.Scheme = ToLower(sch.scheme), !.ForceQuery = TRUE],
                   SubSeq(sch.rest, 1, Len(sch.rest) - 1))
    ELSE ParseHier([EmptyURL EXCEPT !.Scheme = ToLower(sch.scheme),
                                    !.RawQuery = SplitAt(sch.rest, "?", TRUE)[2]],
                   SplitAt(sch.rest, "?", TRUE)[1])

\* parse(rawurl, false): the URL without its fragment.
ParseNoFragment(raw) ==
    IF \E i \in 1..Len(raw) : raw[i] \in {"\t", "\n"}
    THEN URLError("net/url: invalid control character in URL")
    ELSE IF raw = <<"*">> THEN [url |-> [EmptyURL EXCEPT !.Path = <<"*">>], err |-> NoErr]
    ELSE ParseQuery(GetScheme(raw))

\* url.Parse from the return of parse on: the fragment is decoded and stored.
SetFragment(p, frag) ==
    IF p.err # NoErr THEN p
    ELSE IF frag.err # NoErr THEN URLError(frag.err)
    ELSE [url |-> [p.url EXCEPT !.Fragment = frag.text], err |-> NoErr]

ParseFragment(p, frag) ==
    IF p.err # NoErr \/ Len(frag) = 0 THEN p ELSE SetFragment(p, Unescape(frag, "fragment"))

\* url.Parse(rawurl)
Parse(raw) == ParseFragment(ParseNoFragment(SplitAt(raw, "#", TRUE)[1]), SplitAt(raw, "#", TRUE)[2])

\* URL.EscapedPath()
EscapedPath(u) ==
    IF /\ Len(u.RawPath) > 0 /\ ValidEncoded(u.RawPath)
       /\ Unescape(u.RawPath, "path") = [text |-> u.Path, err |-> NoErr]
    THEN u.RawPath
    ELSE IF u.Path = <<"*">> THEN <<"*">>
    ELSE Escape(u.Path, "path")

\* Userinfo.String()
UserString(user) ==
    Escape(user.Username, "userinfo")
        \o (IF user.PasswordSet THEN <<":">> \o Escape(user.Password, "userinfo") ELSE <<>>)

\* URL.String(): the scheme and its colon.
SchemePart(u) == IF Len(u.Scheme) > 0 THEN u.Scheme \o <<":">> ELSE <<>>

\* URL.String(): the two slashes, the user information and the host.
AuthorityPart(u) ==
    IF Len(u.Scheme) > 0 \/ Len(u.Host) > 0 \/ u.User.set
    THEN (IF Len(u.Host) > 0 \/ Len(u.Path) > 0 \/ u.User.set THEN <<"/", "/">> ELSE <<>>)
         \o (IF u.User.set THEN UserString(u.User) \o <<"@">> ELSE <<>>)
         \o Escape(u.Host, "host")
    ELSE <<>>

\* URL.String(): the path written after buf, with "./" before a first segment that holds a
\* colon when nothing precedes it.
WritePath(buf, path) ==
    buf \o (IF /\ Len(buf) = 0 /\ Index(path, ":") > 0
               /\ Index(SubSeq(path, 1, Index(path, ":") - 1), "/") = 0
            THEN <<".", "/">> ELSE <<>>)
        \o path

\* URL.String(): the part between the scheme and the query of a URL that is not opaque.
HierPart(buf, u, path) ==
    WritePath(buf \o (IF Len(path) > 0 /\ path[1] # "/" /\ Len(u.Host) > 0 THEN <<"/">> ELSE <<>>),
              path)

\* URL.String()
URLString(u) ==
    (IF Len(u.Opaque) > 0 THEN SchemePart(u) \o u.Opaque
     ELSE HierPart(SchemePart(u) \o AuthorityPart(u), u, EscapedPath(u)))
        \o (IF u.ForceQuery \/ Len(u.RawQuery) > 0 THEN <<"?">> \o u.RawQuery ELSE <<>>)
        \o (IF Len(u.Fragment) > 0 THEN <<"#">> \o Escape(u.Fragment, "fragment") ELSE <<>>)

(***************************************************************************)
(* Dial.                                                                   *)
(***************************************************************************)
baseUploadURL == <<"h","t","t","p","s",":","/","/","a","p","i",".","c","l","o","u","d","i","n","a","r","y",".","c","o","m","/","v","1","_","1">>

\* Service: the fields of the handle (the http.Client holds no field the code sets).
Service(cloudName, apiKey, apiSecret, uploadURI) ==
    [nil |-> FALSE, cloudName |-> cloudName, apiKey |-> apiKey, apiSecret |-> apiSecret,
     uploadURI |-> uploadURI]

\* Dial with the key and the secret stored in each other's field.
DialUploadSwapsCredentials(u, up) ==
    IF up.err # NoErr THEN [svc |-> Nil, err |-> up.err]
    ELSE [svc |-> Service(u.Host, u.User.Password, u.User.Username, up.url), err |-> NoErr]

\* Dial from the second url.Parse on: the handle is filled in.
DialUpload(u, up) ==
    IF up.err # NoErr THEN [svc |-> Nil, err |-> up.err]
    ELSE [svc |-> Service(u.Host, u.User.Username, u.User.Password, up.url), err |-> NoErr]

\* Dial without the check that a password component exists.
DialParsedAcceptsNoSecret(p) ==
    IF p.err # NoErr THEN [svc |-> Nil, err |-> p.err]
    ELSE IF p.url.Scheme # <<"c","l","o","u","d","i","n","a","r","y">>
    THEN [svc |-> Nil, err |-> "Missing cloudinary:// scheme in URI"]
    ELSE DialUpload(p.url, Parse(baseUploadURL \o <<"/">> \o p.url.Host \o <<"/","i","m","a","g","e","/","u","p","l","o","a","d","/">>))

\* Dial from the first url.Parse on: the scheme and the password are checked and the upload
\* URL is parsed.
DialParsed(p) ==
    IF p.err # NoErr THEN [svc |-> Nil, err |-> p.err]
    ELSE IF p.url.Scheme # <<"c","l","o","u","d","i","n","a","r","y">>
    THEN [svc |-> Nil, err |-> "Missing cloudinary:// scheme in URI"]
    ELSE IF ~p.url.User.PasswordSet THEN [svc |-> Nil, err |-> "no API secret provided in URI"]
    ELSE DialUpload(p.url, Parse(baseUploadURL \o <<"/">> \o p.url.Host \o <<"/","i","m","a","g","e","/","u","p","l","o","a","d","/">>))

\* Dial(uri): the handle and the error it returns.
Dial(uri) == DialParsed(Parse(uri))

\* Service.CloudName()
CloudName(s) == s.cloudName

\* Service.DefaultUploadURI()
DefaultUploadURI(s) == s.uploadURI

(***************************************************************************)
(* The connection strings Dial is given.  Each carries the parts it was    *)
(* written from: the scheme as written, the key, the secret, the cloud.    *)
(***************************************************************************)
Keys == {<<"l","o","g","i","n">>, <<"k",":","y">>, <<"A","1">>, <<>>}
Secrets == {<<"s","e","c","r","e","t">>, <<"s","@","1">>, <<>>}
Clouds == {<<"c","l","o","u","d","n","a","m","e">>, <<"c","-","1",".","x">>, <<"C","l","o","u","d">>}

\* cloudinary://<key>:<secret>@<cloud>, the key and the secret written as URI user information.
ConnString(scheme, key, secret, cloud) ==
    scheme \o <<":","/","/">> \o Escape(key, "userinfo") \o <<":">> \o Escape(secret, "userinfo")
        \o <<"@">> \o cloud

WellFormedConns ==
    {[raw |-> ConnString(<<"c","l","o","u","d","i","n","a","r","y">>, k, s, c), kind |-> "wellformed", scheme |-> <<"c","l","o","u","d","i","n","a","r","y">>,
      key |-> k, secret |-> s, cloud |-> c] : k \in Keys, s \in Secrets, c \in Clouds}

\* The scheme cloudinary written in another letter case.
OtherCaseConns ==
    {[raw |-> ConnString(sc, k, <<"s","e","c","r","e","t">>, c), kind |-> "othercase", scheme |-> sc,
      key |-> k, secret |-> <<"s","e","c","r","e","t">>, cloud |-> c] :
        sc \in {<<"C","l","o","u","d","i","n","a","r","y">>, <<"C","L","O","U","D","I","N","A","R","Y">>}, k \in Keys, c \in Clouds}

\* Another scheme, or none.
OtherSchemeConns ==
    {[raw |-> ConnString(sc, k, <<"s","e","c","r","e","t">>, c), kind |-> "otherscheme", scheme |-> sc,
      key |-> k, secret |-> <<"s","e","c","r","e","t">>, cloud |-> c] :
        sc \in {<<"h","t","t","p">>, <<"c","l","o","u","d","i","n","a","r","i">>, <<"c","l","o","u","d","i","n","a","r","y","2">>}, k \in Keys, c \in Clouds}
    \cup {[raw |-> r, kind |-> "otherscheme", scheme |-> <<>>, key |-> <<>>, secret |-> <<>>, cloud |-> <<>>] :
            r \in {<<"h","t","t","p",":","/","/","l","o","c","a","l","h","o","s","t">>, <<"/","/","l","o","g","i","n",":","s","e","c","r","e","t","@","c","l","o","u","d","n","a","m","e">>, <<"l","o","g","i","n",":","s","e","c","r","e","t","@","c","l","o","u","d","n","a","m","e">>,
                   <<"b","a","d","u","r","i",":",":">>, <<>>}}

\* No password component: no user information at all, or a user name alone.
NoSecretConns ==
    {[raw |-> <<"c","l","o","u","d","i","n","a","r","y",":","/","/">> \o Escape(k, "userinfo") \o <<"@">> \o c, kind |-> "nosecret",
      scheme |-> <<"c","l","o","u","d","i","n","a","r","y">>, key |-> k, secret |-> <<>>, cloud |-> c] : k \in Keys, c \in Clouds}
    \cup {[raw |-> r, kind |-> "nosecret", scheme |-> <<"c","l","o","u","d","i","n","a","r","y">>, key |-> <<>>, secret |-> <<>>,
           cloud |-> <<>>] :
            r \in {<<"c","l","o","u","d","i","n","a","r","y",":","/","/","c","l","o","u","d","n","a","m","e">>, <<"c","l","o","u","d","i","n","a","r","y",":","l","o","g","i","n",":","s","e","c","r","e","t","@","c","l","o","u","d","n","a","m","e">>, <<"c","l","o","u","d","i","n","a","r","y",":","/","/">>}}

\* Strings url.Parse rejects.
InvalidConns ==
    {[raw |-> r, kind |-> "invalid", scheme |-> <<>>, key |-> <<>>, secret |-> <<>>, cloud |-> <<>>] :
        r \in {<<":">>, <<":","/","/","l","o","g","i","n",":","s","e","c","r","e","t","@","c","l","o","u","d","n","a","m","e">>, <<"c","l","o","u","d","i","n","a","r","y",":","/","/","l","o","g","i","n",":","s","e","c","r","e","t","@","c","l","o","u","d"," ","n","a","m","e">>,
               <<"c","l","o","u","d","i","n","a","r","y",":","/","/","l","o","g","i","n",":","s","e","c","r","e","t","@","c","l","o","u","d","n","a","m","e",":","p","o","r","t">>, <<"c","l","o","u","d","i","n","a","r","y",":","/","/","l","o","g","i","n",":","s","e","%","z","z","c","r","e","t","@","c","l","o","u","d","n","a","m","e">>,
               <<"c","l","o","u","d","i","n","a","r","y",":","/","/","l","o"," ","g","i","n",":","s","e","c","r","e","t","@","c","l","o","u","d","n","a","m","e">>, <<"c","l","o","u","d","i","n","a","r","y",":","/","/","l","o","g","i","n",":","s","e","c","r","e","t","@","c","l","o","u","d","%","4","1","n","a","m","e">>,
               <<"c","l","o","u","d","i","n","a","r","y",":","/","/","l","o","g","i","n",":","s","e","c","r","e","t","@","c","l","o","u","d","n","a","m","e","\n">>, <<"c","l","o","u","d","i","n","a","r","y",":","/","/","l","o","g","i","n",":","s","e","c","r","e","t","@","c","l","o","u","d","n","a","m","e","#","%","z">>}}

ConnInputs == WellFormedConns \cup OtherCaseConns \cup OtherSchemeConns \cup NoSecretConns \cup InvalidConns

\* The connection string of the tests' handle.
TestConn ==
    [raw |-> <<"c","l","o","u","d","i","n","a","r","y",":","/","/","l","o","g","i","n",":","s","e","c","r","e","t","@","c","l","o","u","d","n","a","m","e">>, kind |-> "wellformed", scheme |-> <<"c","l","o","u","d","i","n","a","r","y">>,
     key |-> <<"l","o","g","i","n">>, secret |-> <<"s","e","c","r","e","t">>, cloud |-> <<"c","l","o","u","d","n","a","m","e">>]

(***************************************************************************)
(* The state before any call, and the Dial step.                           *)
(***************************************************************************)
NoResize ==
    [called |-> FALSE, addr |-> 0, before |-> <<>>, width |-> 0, height |-> 0,
     ret |-> 0, err |-> NoErr, panicked |-> FALSE]

NoResponse == [kind |-> "none"]

\* A caller with no upload call in flight.
IdleCall ==
    [pc |-> "idle", op |-> "none", file |-> [content |-> <<>>, fails |-> FALSE], src |-> EmptyURL,
     req |-> 0, uri |-> <<>>, at |-> 0, wrote |-> <<>>, sent |-> Nil, resp |-> NoResponse,
     ret |-> Nil, err |-> Nil]

NoDelete == [called |-> FALSE, err |-> Nil]

Callers == 1..NumCallers

RestInit ==
    /\ urls = <<>>
    /\ lastResize = NoResize
    /\ nResizes = 0
    /\ crashed = FALSE
    /\ now = 1000000000
    /\ bufs = <<>>
    /\ calls = [c \in Callers |-> IdleCall]
    /\ deleted = NoDelete

InitDial ==
    /\ conn \in ConnInputs
    /\ dialled = FALSE
    /\ svc = Nil
    /\ dialErr = NoErr
    /\ RestInit

\* A caller runs Dial(conn.raw) and keeps what it returns.
DialStep ==
    /\ ~dialled
    /\ dialled' = TRUE
    /\ \E r \in {Dial(conn.raw)} : svc' = r.svc /\ dialErr' = r.err
    /\ UNCHANGED <<conn, urls, lastResize, nResizes, crashed, now, bufs, calls, deleted>>

NextDial == DialStep

SpecDial == InitDial /\ [][NextDial]_vars

(***************************************************************************)
(* C1: for every well-formed connection string                             *)
(* cloudinary://<key>:<secret>@<cloud>, Dial succeeds, the handle stores   *)
(* exactly that key, that secret and that cloud name, and its default      *)
(* upload endpoint prints as                                               *)
(* https://api.cloudinary.com/v1_1/<cloud>/image/upload/.                  *)
(***************************************************************************)
C1_DialStoresParts ==
    (dialled /\ conn.kind = "wellformed") =>
        /\ dialErr = NoErr
        /\ svc # Nil
        /\ svc.apiKey = conn.key
        /\ svc.apiSecret = conn.secret
        /\ CloudName(svc) = conn.cloud
        /\ URLString(DefaultUploadURI(svc))
             = <<"h","t","t","p","s",":","/","/","a","p","i",".","c","l","o","u","d","i","n","a","r","y",".","c","o","m","/","v","1","_","1","/">> \o conn.cloud \o <<"/","i","m","a","g","e","/","u","p","l","o","a","d","/">>

\* Dial has returned a handle for a connection string whose key and secret needed escaping.
C1_Witness ==
    /\ dialled
    /\ conn.kind = "wellformed"
    /\ conn.raw = <<"c","l","o","u","d","i","n","a","r","y",":","/","/","k","%","3","A","y",":","s","%","4","0","1","@","c","l","o","u","d","n","a","m","e">>
    /\ svc # Nil
    /\ svc.apiKey = <<"k",":","y">>
    /\ svc.apiSecret = <<"s","@","1">>

(***************************************************************************)
(* C2 as stated: Dial fails and returns no handle whenever the connection  *)
(* string is not syntactically a URI, or its scheme as written is not the  *)
(* literal cloudinary, or it carries no password component.                *)
(***************************************************************************)
C2_FailsUnlessLiteralScheme ==
    (dialled /\ (conn.kind \in {"invalid", "nosecret"} \/ conn.scheme # <<"c","l","o","u","d","i","n","a","r","y">>)) =>
        (svc = Nil /\ dialErr # NoErr)

(***************************************************************************)
(* C2 amended: Dial fails and returns no handle whenever url.Parse rejects *)
(* the connection string, or its scheme, compared without regard to letter *)
(* case, is not cloudinary, or it carries no password component.           *)
(***************************************************************************)
C2_FailsUnlessScheme ==
    (dialled /\ (conn.kind \in {"invalid", "nosecret"} \/ ToLower(conn.scheme) # <<"c","l","o","u","d","i","n","a","r","y">>)) =>
        (svc = Nil /\ dialErr # NoErr)

\* Dial has refused the connection string without a secret.
C2_Witness ==
    /\ dialled
    /\ conn.raw = <<"c","l","o","u","d","i","n","a","r","y",":","/","/","l","o","g","i","n","@","c","l","o","u","d","n","a","m","e">>
    /\ svc = Nil
    /\ dialErr = "no API secret provided in URI"

(***************************************************************************)
(* GetResizedImageURL.                                                     *)
(***************************************************************************)
ValidationError == "url must be of format https://res.cloudinary.com/<cloudName>/image/upload/"

\* fmt.Sprintf("w_%d,h_%d,c_fit", width, height)
ResizedParams(width, height) ==
    <<"w","_">> \o FormatInt(width) \o <<",","h","_">> \o FormatInt(height) \o <<",","c","_","f","i","t">>

\* GetResizedImageURL with the transform inserted one segment too early.
GetResizedImageURLInsertsEarly(heap, ID, width, height) ==
    LET pathParts == Split(heap[ID].Path, "/")
        newPath == SubSeq(pathParts, 1, 3) \o <<ResizedParams(width, height)>>
                       \o SubSeq(pathParts, 4, Len(pathParts))
    IN  IF Len(pathParts) < 3 THEN [heap |-> heap, ret |-> 0, err |-> NoErr, panicked |-> TRUE]
        ELSE IF pathParts[3] # <<"i","m","a","g","e">> THEN [heap |-> heap, ret |-> 0, err |-> ValidationError, panicked |-> FALSE]
        ELSE IF Len(pathParts) < 4 THEN [heap |-> heap, ret |-> 0, err |-> NoErr, panicked |-> TRUE]
        ELSE IF pathParts[4] # <<"u","p","l","o","a","d">> THEN [heap |-> heap, ret |-> 0, err |-> ValidationError, panicked |-> FALSE]
        ELSE [heap |-> [heap EXCEPT ![ID].Path = Join(newPath, "/")], ret |-> ID, err |-> NoErr,
              panicked |-> FALSE]

\* GetResizedImageURL writing the new path before it validates the old one, and dropping the query.
GetResizedImageURLWritesFirst(heap, ID, width, height) ==
    LET pathParts == Split(heap[ID].Path, "/")
        newPath == SubSeq(pathParts, 1, 4) \o <<ResizedParams(width, height)>>
                       \o SubSeq(pathParts, 5, Len(pathParts))
        written == [heap EXCEPT ![ID].Path = Join(newPath, "/"), ![ID].RawQuery = <<>>]
    IN  IF Len(pathParts) < 3 THEN [heap |-> heap, ret |-> 0, err |-> NoErr, panicked |-> TRUE]
        ELSE IF pathParts[3] # <<"i","m","a","g","e">> THEN [heap |-> written, ret |-> 0, err |-> ValidationError, panicked |-> FALSE]
        ELSE IF Len(pathParts) < 4 THEN [heap |-> heap, ret |-> 0, err |-> NoErr, panicked |-> TRUE]
        ELSE IF pathParts[4] # <<"u","p","l","o","a","d">> THEN [heap |-> written, ret |-> 0, err |-> ValidationError, panicked |-> FALSE]
        ELSE [heap |-> written, ret |-> ID, err |-> NoErr, panicked |-> FALSE]

\* GetResizedImageURL(ID, width, height) on the URL object at address ID: the heap after the
\* call, the address returned (0 for nil), the error, and whether an index ran out of range.
GetResizedImageURL(heap, ID, width, height) ==
    LET pathParts == Split(heap[ID].Path, "/")
        newPath == SubSeq(pathParts, 1, 4) \o <<ResizedParams(width, height)>>
                       \o SubSeq(pathParts, 5, Len(pathParts))
    IN  IF Len(pathParts) < 3 THEN [heap |-> heap, ret |-> 0, err |-> NoErr, panicked |-> TRUE]
        ELSE IF pathParts[3] # <<"i","m","a","g","e">> THEN [heap |-> heap, ret |-> 0, err |-> ValidationError, panicked |-> FALSE]
        ELSE IF Len(pathParts) < 4 THEN [heap |-> heap, ret |-> 0, err |-> NoErr, panicked |-> TRUE]
        ELSE IF pathParts[4] # <<"u","p","l","o","a","d">> THEN [heap |-> heap, ret |-> 0, err |-> ValidationError, panicked |-> FALSE]
        ELSE [heap |-> [heap EXCEPT ![ID].Path = Join(newPath, "/")], ret |-> ID, err |-> NoErr,
              panicked |-> FALSE]

\* A caller runs GetResizedImageURL on one of the URL objects it holds.
Resize(a, width, height) ==
    /\ ~crashed
    /\ dialled /\ svc # Nil
    /\ nResizes < MaxResizes
    /\ \E r \in {GetResizedImageURL(urls, a, width, height)} :
           /\ urls' = r.heap
           /\ lastResize' = [called |-> TRUE, addr |-> a, before |-> urls, width |-> width,
                             height |-> height, ret |-> r.ret, err |-> r.err,
                             panicked |-> r.panicked]
           /\ crashed' = r.panicked
    /\ nResizes' = nResizes + 1
    /\ UNCHANGED <<conn, dialled, svc, dialErr, now, bufs, calls, deleted>>

\* The delivery URL of the tests.
goldenImageURL ==
    [EmptyURL EXCEPT !.Scheme = <<"h","t","t","p","s">>, !.Host = <<"r","e","s",".","c","l","o","u","d","i","n","a","r","y",".","c","o","m">>,
                     !.Path = <<"/","y","o","u","r","c","l","o","u","d","n","a","m","e","/","i","m","a","g","e","/","u","p","l","o","a","d","/","v","1","5","7","9","7","0","3","3","6","5","/","q","8","z","r","n","0","w","e","v","s","u","j","3","0","a","l","b","n","e","d",".","p","n","g">>]

\* Paths /<cloud>/image/upload/<rest>.
DeliveryPaths ==
    {<<"/">> \o c \o <<"/","i","m","a","g","e","/","u","p","l","o","a","d","/">> \o r :
        c \in {<<"y","o","u","r","c","l","o","u","d","n","a","m","e">>, <<"c">>},
        r \in {<<"v","1","5","7","9","7","0","3","3","6","5","/","q","8","z","r","n","0","w","e","v","s","u","j","3","0","a","l","b","n","e","d",".","p","n","g">>, <<"i","m","g",".","j","p","g">>, <<"v","1","/","x",".","p","n","g">>}}

\* Paths without image and upload after the cloud name, some too short to hold them.
OtherPaths ==
    {<<"y","o","u","r","c","l","o","u","d","n","a","m","e","/","b","l","a","h","/","l","a","a","a",".","p","n","g">>, <<"/","c","l","o","u","d","/","b","l","a","h","/","l","a","a","a",".","p","n","g">>, <<"/","c","l","o","u","d","/","i","m","a","g","e","/","u","p","l","o","a","d","s","/","x",".","p","n","g">>,
     <<"/","c","l","o","u","d","/","r","a","w","/","u","p","l","o","a","d","/","v","1","/","x",".","p","n","g">>, <<"/","c","l","o","u","d","/","i","m","a","g","e","/","x",".","p","n","g">>, <<"/","c","l","o","u","d","/","u","p","l","o","a","d","/","i","m","a","g","e","/","x",".","p","n","g">>,
     <<"/","c","l","o","u","d","/","i","m","a","g","e">>, <<"/","c","l","o","u","d">>, <<"/">>, <<>>}

\* The URL objects GetResizedImageURL is given.
ResizeInputs ==
    {[goldenImageURL EXCEPT !.Path = p, !.Host = v[1], !.RawQuery = v[2], !.Fragment = v[3]] :
        p \in DeliveryPaths \cup OtherPaths,
        v \in {<<<<"r","e","s",".","c","l","o","u","d","i","n","a","r","y",".","c","o","m">>, <<>>, <<>>>>, <<<<"b","l","a","h">>, <<"a","=","1">>, <<>>>>,
               <<<<"r","e","s",".","c","l","o","u","d","i","n","a","r","y",".","c","o","m">>, <<"b","7","f","5","8">>, <<"t","o","p">>>>}}

Widths == {-5, 100}
Heights == {0, 200}

InitResize ==
    /\ conn = TestConn
    /\ dialled = TRUE
    /\ \E r \in {Dial(TestConn.raw)} : svc = r.svc /\ dialErr = r.err
    /\ urls \in {<<u, goldenImageURL>> : u \in ResizeInputs}
    /\ lastResize = NoResize
    /\ nResizes = 0
    /\ crashed = FALSE
    /\ now = 1000000000
    /\ bufs = <<>>
    /\ calls = [c \in Callers |-> IdleCall]
    /\ deleted = NoDelete

NextResize == \E a \in 1..2, w \in Widths, h \in Heights : Resize(a, w, h)

SpecResize == InitResize /\ [][NextResize]_vars

\* The path is /<cloud>/image/upload/<rest>, with k the length of /<cloud>.
IsDeliveryPrefix(p, k) ==
    /\ k >= 1 /\ k <= Len(p)
    /\ p[1] = "/"
    /\ \A i \in 2..k : p[i] # "/"
    /\ HasPrefix(SubSeq(p, k + 1, Len(p)), <<"/","i","m","a","g","e","/","u","p","l","o","a","d","/">>)

\* The path has image and upload as the segments that follow /<cloud>.
HasImageUpload(p) ==
    \E k \in 1..Len(p) :
        /\ p[1] = "/"
        /\ \A i \in 2..k : p[i] # "/"
        /\ \/ SubSeq(p, k + 1, Len(p)) = <<"/","i","m","a","g","e","/","u","p","l","o","a","d">>
           \/ HasPrefix(SubSeq(p, k + 1, Len(p)), <<"/","i","m","a","g","e","/","u","p","l","o","a","d","/">>)

C4_ValidationErrorNoCrash ==
    (lastResize.called /\ ~HasImageUpload(lastResize.before[lastResize.addr].Path)) =>
        /\ ~lastResize.panicked
        /\ lastResize.err = ValidationError
        /\ lastResize.ret = 0

(***************************************************************************)
(* C10: GetResizedImageURL changes nothing but the Path of the URL object  *)
(* it is given.  On success it returns that same object, with scheme,      *)
(* host, query and fragment as they were and the transform segment added   *)
(* to the path, so that a second call adds a second transform segment; on  *)
(* a validation error the URL is left as it was.  No other URL object      *)
(* changes.                                                                *)
(***************************************************************************)
C10_OnlyPathChanges ==
    lastResize.called =>
        LET a == lastResize.addr
            old == lastResize.before
            parts == Split(old[a].Path, "/")
        IN  /\ \A b \in DOMAIN urls : b # a => urls[b] = old[b]
            /\ lastResize.err = NoErr /\ ~lastResize.panicked =>
                   /\ lastResize.ret = a
                   /\ urls[a] = [old[a] EXCEPT !.Path = urls[a].Path]
                   /\ Len(Split(urls[a].Path, "/")) = Len(parts) + 1
                   /\ Split(urls[a].Path, "/")[5] = ResizedParams(lastResize.width, lastResize.height)
                   /\ \A i \in 1..Len(parts) :
                          Split(urls[a].Path, "/")[IF i <= 4 THEN i ELSE i + 1] = parts[i]
            /\ lastResize.err # NoErr => (urls = old /\ lastResize.ret = 0)

\* A second call on the same object has added a second transform segment.
C10_Witness ==
    /\ nResizes = 2
    /\ lastResize.addr = 1
    /\ lastResize.err = NoErr
    /\ urls[1].RawQuery = <<"b","7","f","5","8">>
    /\ urls[1].Fragment = <<"t","o","p">>
    /\ urls[1].Path = <<"/","c","/","i","m","a","g","e","/","u","p","l","o","a","d","/","w","_","-","5",",","h","_","0",",","c","_","f","i","t","/","w","_","1","0","0",",","h","_","2","0","0",",","c","_","f","i","t","/","v","1","/","x",".","p","n","g">>

(***************************************************************************)
(* The upload request: newRequest, the payload field, buildHTTPRequest.    *)
(* A bytes.Buffer with its multipart.Writer is the sequence of the parts   *)
(* written to it and whether the closing boundary has been written.        *)
(***************************************************************************)
Error(msg) == [nil |-> FALSE, msg |-> msg]

\* sha1.New, io.WriteString and fmt.Sprintf("%x", hash.Sum(nil)): the digest of a message, in hex.
SHA1Hex(msg) == <<"sha1hex(">> \o msg \o <<")">>

\* multipart.Writer.CreateFormField(name) followed by the Write of its value.
FormField(name, value) == [name |-> name, filename |-> <<>>, file |-> FALSE, body |-> value]

\* multipart.Writer.CreateFormFile(name, filename) followed by the Write of its content.
FormFile(name, filename, content) == [name |-> name, filename |-> filename, file |-> TRUE, body |-> content]

\* The three fields newRequest writes, after time.Now().Unix() returned t.
SignedTimestamp(apiKey, apiSecret, timestamp) ==
    <<FormField(<<"a","p","i","_","k","e","y">>, apiKey), FormField(<<"t","i","m","e","s","t","a","m","p">>, timestamp),
      FormField(<<"s","i","g","n","a","t","u","r","e">>, SHA1Hex(<<"t","i","m","e","s","t","a","m","p","=">> \o timestamp \o apiSecret))>>

SignedFields(apiKey, apiSecret, t) == SignedTimestamp(apiKey, apiSecret, FormatInt(t))

\* newRequest writing into one buffer that every request shares.
newRequestSharedBuffer(heap, uri, apiKey, apiSecret, t) ==
    [heap |-> IF Len(heap) = 0
              THEN <<[parts |-> SignedFields(apiKey, apiSecret, t), closed |-> FALSE]>>
              ELSE [heap EXCEPT ![1].parts = @ \o SignedFields(apiKey, apiSecret, t)],
     req |-> [uri |-> uri, buf |-> 1],
     err |-> Nil]

\* newRequest signing "timestamp=" + timestamp + "&" + apiSecret.
newRequestSignsWithSeparator(heap, uri, apiKey, apiSecret, t) ==
    [heap |-> Append(heap, [parts |-> SignedFields(apiKey, <<"&">> \o apiSecret, t), closed |-> FALSE]),
     req |-> [uri |-> uri, buf |-> Len(heap) + 1],
     err |-> Nil]

\* newRequest(uri, apiKey, apiSecret), with t the value time.Now().Unix() returns: a fresh
\* buffer holding the api_key, timestamp and signature fields, and the request that owns it.
newRequest(heap, uri, apiKey, apiSecret, t) ==
    [heap |-> Append(heap, [parts |-> SignedFields(apiKey, apiSecret, t), closed |-> FALSE]),
     req |-> [uri |-> uri, buf |-> Len(heap) + 1],
     err |-> Nil]

\* addImageFileToRequest carrying on after ioutil.ReadAll failed.
addImageFileToRequestIgnoresReadError(heap, req, data) ==
    [heap |-> [heap EXCEPT ![req.buf].parts =
                   Append(@, FormFile(<<"f","i","l","e">>, <<"f","i","l","e">>, IF data.fails THEN <<>> ELSE data.content))],
     err |-> Nil]

\* request.addImageFileToRequest(data): the file part is created, then the stream is read to
\* its end and written; a read error leaves the part empty and is returned.
addImageFileToRequest(heap, req, data) ==
    IF data.fails
    THEN [heap |-> [heap EXCEPT ![req.buf].parts = Append(@, FormFile(<<"f","i","l","e">>, <<"f","i","l","e">>, <<>>))],
          err |-> Error(<<"r","e","a","d"," ","e","r","r","o","r">>)]
    ELSE [heap |-> [heap EXCEPT ![req.buf].parts = Append(@, FormFile(<<"f","i","l","e">>, <<"f","i","l","e">>, data.content))],
          err |-> Nil]

\* request.addImageURLToRequest(url), with text what url.String() returns: the field file
\* holds that text.
addImageURLToRequest(heap, req, text) ==
    [heap |-> [heap EXCEPT ![req.buf].parts = Append(@, FormField(<<"f","i","l","e">>, text))],
     err |-> Nil]

\* request.buildHTTPRequest(): the writer is closed and the POST request reads the buffer.
buildHTTPRequest(heap, req) ==
    [heap |-> [heap EXCEPT ![req.buf].closed = TRUE],
     http |-> [nil |-> FALSE, method |-> "POST", uri |-> req.uri, parts |-> heap[req.buf].parts,
               closed |-> TRUE],
     err |-> Nil]

(***************************************************************************)
(* The transport's answer and doRequest's reading of it.                   *)
(***************************************************************************)
JAbsent == [t |-> "absent", s |-> <<>>, n |-> 0]
JNull == [t |-> "null", s |-> <<>>, n |-> 0]
JStr(s) == [t |-> "string", s |-> s, n |-> 0]
JNum(n) == [t |-> "number", s |-> <<>>, n |-> n]

\* A response body: text that is not JSON, or the JSON value null, an array, or an object
\* with some of the fields of uploadResponse.
Body(kind) ==
    [kind |-> kind, public_id |-> JAbsent, secure_url |-> JAbsent, version |-> JAbsent,
     format |-> JAbsent, resource_type |-> JAbsent, bytes |-> JAbsent]

\* uploadResponse, zero valued.
uploadResponse ==
    [PublicID |-> <<>>, SecureURL |-> <<>>, Version |-> 0, Format |-> <<>>, ResourceType |-> <<>>,
     Size |-> 0]

\* encoding/json into a string field, a uint field, an int field: whether the value fits.
FitsString(v) == v.t \in {"absent", "null", "string"}
FitsUint(v) == v.t \in {"absent", "null"} \/ (v.t = "number" /\ v.n >= 0)
FitsInt(v) == v.t \in {"absent", "null", "number"}

\* json.NewDecoder(resp.Body).Decode(&upInfo)
Decode(body) ==
    IF body.kind = "invalid" THEN [v |-> uploadResponse, err |-> Error(<<"i","n","v","a","l","i","d"," ","c","h","a","r","a","c","t","e","r">>)]
    ELSE IF body.kind = "null" THEN [v |-> uploadResponse, err |-> Nil]
    ELSE IF body.kind # "object"
    THEN [v |-> uploadResponse, err |-> Error(<<"j","s","o","n",":"," ","c","a","n","n","o","t"," ","u","n","m","a","r","s","h","a","l"," ","a","r","r","a","y"," ","i","n","t","o"," ","G","o"," ","v","a","l","u","e">>)]
    ELSE IF ~(/\ FitsString(body.public_id) /\ FitsString(body.secure_url) /\ FitsUint(body.version)
              /\ FitsString(body.format) /\ FitsString(body.resource_type) /\ FitsInt(body.bytes))
    THEN [v |-> uploadResponse, err |-> Error(<<"j","s","o","n",":"," ","c","a","n","n","o","t"," ","u","n","m","a","r","s","h","a","l"," ","i","n","t","o"," ","G","o"," ","s","t","r","u","c","t"," ","f","i","e","l","d">>)]
    ELSE [v |-> [PublicID |-> body.public_id.s, SecureURL |-> body.secure_url.s,
                 Version |-> body.version.n, Format |-> body.format.s,
                 ResourceType |-> body.resource_type.s, Size |-> body.bytes.n],
          err |-> Nil]

\* doRequest from the second url.Parse on.
doRequestParsed(imgURL) ==
    IF imgURL.err # NoErr THEN [ret |-> Nil, err |-> Error(<<"p","a","r","s","e"," ","e","r","r","o","r">>)]
    ELSE [ret |-> imgURL.url, err |-> Nil]

\* doRequest returning the public id of the upload in place of its secure URL.
doRequestDecodedReadsPublicID(dec) ==
    IF dec.err # Nil THEN [ret |-> Nil, err |-> dec.err] ELSE doRequestParsed(Parse(dec.v.PublicID))

\* doRequest from the return of Decode on: the secure URL is parsed.
doRequestDecoded(dec) ==
    IF dec.err # Nil THEN [ret |-> Nil, err |-> dec.err] ELSE doRequestParsed(Parse(dec.v.SecureURL))

\* Service.doRequest(req) from the return of s.client.Do on: the URL and the error it returns.
doRequest(resp) ==
    IF resp.kind = "neterr" THEN [ret |-> Nil, err |-> Error(<<"P","o","s","t",":"," ","d","i","a","l"," ","t","c","p",":"," ","c","o","n","n","e","c","t","i","o","n"," ","r","e","f","u","s","e","d">>)]
    ELSE IF resp.StatusCode # 200
    THEN [ret |-> Nil,
          err |-> Error(<<"R","e","q","u","e","s","t"," ","e","r","r","o","r",":"," ">> \o resp.Status \o <<" ","C","l","d"," ","E","r","r",":"," ">> \o resp.CldError)]
    ELSE doRequestDecoded(Decode(resp.body))

\* Service.Delete(publicURL)
Delete(publicURL) == Error(<<"N","o","t"," ","i","m","p","l","e","m","e","n","t","e","d">>)

(***************************************************************************)
(* The steps of the upload calls.  Each caller runs one call at a time;    *)
(* the steps of different callers interleave.                              *)
(***************************************************************************)
Live == ~crashed /\ dialled /\ svc # Nil

\* UploadImageFile(data, filename), to the return of newRequest.
UploadImageFile(c, data) ==
    /\ Live
    /\ calls[c].pc = "idle"
    /\ \E r \in {newRequest(bufs, URLString(DefaultUploadURI(svc)), svc.apiKey, svc.apiSecret, now)} :
           /\ bufs' = r.heap
           /\ calls' = [calls EXCEPT ![c] =
                           [IdleCall EXCEPT !.pc = "built", !.op = "file", !.file = data,
                                            !.req = r.req.buf, !.uri = r.req.uri, !.at = now,
                                            !.wrote = SignedFields(svc.apiKey, svc.apiSecret, now)]]
    /\ UNCHANGED <<conn, dialled, svc, dialErr, urls, lastResize, nResizes, crashed, now, deleted>>

\* UploadImageURL(URL, filename), to the return of newRequest.
UploadImageURL(c, URL) ==
    /\ Live
    /\ calls[c].pc = "idle"
    /\ \E r \in {newRequest(bufs, URLString(DefaultUploadURI(svc)), svc.apiKey, svc.apiSecret, now)} :
           /\ bufs' = r.heap
           /\ calls' = [calls EXCEPT ![c] =
                           [IdleCall EXCEPT !.pc = "built", !.op = "url", !.src = URL,
                                            !.req = r.req.buf, !.uri = r.req.uri, !.at = now,
                                            !.wrote = SignedFields(svc.apiKey, svc.apiSecret, now)]]
    /\ UNCHANGED <<conn, dialled, svc, dialErr, urls, lastResize, nResizes, crashed, now, deleted>>

\* UploadImageFile from req.addImageFileToRequest(data) to its return.
AddImageFile(c) ==
    /\ Live
    /\ calls[c].pc = "built" /\ calls[c].op = "file"
    /\ \E r \in {addImageFileToRequest(bufs, [uri |-> calls[c].uri, buf |-> calls[c].req],
                                       calls[c].file)} :
           /\ bufs' = r.heap
           /\ calls' = [calls EXCEPT ![c] =
                           IF r.err # Nil
                           THEN [@ EXCEPT !.pc = "done", !.err = r.err,
                                          !.wrote = Append(@, FormFile(<<"f","i","l","e">>, <<"f","i","l","e">>, <<>>))]
                           ELSE [@ EXCEPT !.pc = "filled",
                                          !.wrote = Append(@, FormFile(<<"f","i","l","e">>, <<"f","i","l","e">>,
                                                                      calls[c].file.content))]]
    /\ UNCHANGED <<conn, dialled, svc, dialErr, urls, lastResize, nResizes, crashed, now, deleted>>

\* UploadImageURL from req.addImageURLToRequest(URL) to its return.
AddImageURL(c) ==
    /\ Live
    /\ calls[c].pc = "built" /\ calls[c].op = "url"
    /\ \E text \in {URLString(calls[c].src)} :
           /\ bufs' = addImageURLToRequest(bufs, [uri |-> calls[c].uri, buf |-> calls[c].req],
                                           text).heap
           /\ calls' = [calls EXCEPT ![c] =
                           [@ EXCEPT !.pc = "filled", !.wrote = Append(@, FormField(<<"f","i","l","e">>, text))]]
    /\ UNCHANGED <<conn, dialled, svc, dialErr, urls, lastResize, nResizes, crashed, now, deleted>>

\* doRequest to the call of s.client.Do: the request is built and handed to the transport.
Send(c) ==
    /\ Live
    /\ calls[c].pc = "filled"
    /\ \E r \in {buildHTTPRequest(bufs, [uri |-> calls[c].uri, buf |-> calls[c].req])} :
           /\ bufs' = r.heap
           /\ calls' = [calls EXCEPT ![c] = [@ EXCEPT !.pc = "sent", !.sent = r.http]]
    /\ UNCHANGED <<conn, dialled, svc, dialErr, urls, lastResize, nResizes, crashed, now, deleted>>

\* doRequest from the return of s.client.Do to its own return.
Receive(c, resp) ==
    /\ Live
    /\ calls[c].pc = "sent"
    /\ \E r \in {doRequest(resp)} :
           calls' = [calls EXCEPT ![c] = [@ EXCEPT !.pc = "done", !.resp = resp, !.ret = r.ret,
                                                   !.err = r.err]]
    /\ UNCHANGED <<conn, dialled, svc, dialErr, urls, lastResize, nResizes, crashed, now, bufs, deleted>>

\* A caller runs Delete.
DeleteStep ==
    /\ Live
    /\ deleted' = [called |-> TRUE, err |-> Delete(goldenImageURL)]
    /\ UNCHANGED <<conn, dialled, svc, dialErr, urls, lastResize, nResizes, crashed, now, bufs, calls>>

\* The wall clock advances by a second.
ClockTimes == {1000000000, 1000000001}

Tick ==
    /\ ~crashed
    /\ now + 1 \in ClockTimes
    /\ now' = now + 1
    /\ UNCHANGED <<conn, dialled, svc, dialErr, urls, lastResize, nResizes, crashed, bufs, calls, deleted>>

(***************************************************************************)
(* The inputs of the upload calls and the answers of the transport.        *)
(***************************************************************************)
\* io.Readers: the bytes they hold and whether reading them fails.
Files ==
    {[content |-> <<"P","N","G">>, fails |-> FALSE], [content |-> <<>>, fails |-> FALSE],
     [content |-> <<"P","N","G">>, fails |-> TRUE]}

\* The source URLs handed to UploadImageURL.
SourceURLs ==
    {Parse(<<"h","t","t","p","s",":","/","/","e","n",".","w","i","k","i","p","e","d","i","a",".","o","r","g","/","w","/","s","k","i","n","s","/","V","e","c","t","o","r","/","i","m","a","g","e","s","/","u","s","e","r","-","a","v","a","t","a","r",".","s","v","g","?","b","7","f","5","8">>).url,
     [EmptyURL EXCEPT !.Scheme = <<"h","t","t","p","s">>, !.Host = <<"h">>, !.Path = <<"/","a"," ","b",".","p","n","g">>]}

SecureURL == <<"h","t","t","p","s",":","/","/","r","e","s",".","c","l","o","u","d","i","n","a","r","y",".","c","o","m","/","c","/","i","m","a","g","e","/","u","p","l","o","a","d","/","v","1","/","x",".","p","n","g">>

HTTP(code, status, cldError, body) ==
    [kind |-> "http", StatusCode |-> code, Status |-> status, CldError |-> cldError, body |-> body]

OK(body) == HTTP(200, <<"2","0","0"," ","O","K">>, <<>>, body)

\* The whole upload result Cloudinary sends.
FullBody ==
    [Body("object") EXCEPT !.public_id = JStr(<<"x">>), !.secure_url = JStr(SecureURL),
                           !.version = JNum(1), !.format = JStr(<<"p","n","g">>),
                           !.resource_type = JStr(<<"i","m","a","g","e">>), !.bytes = JNum(10)]

Responses ==
    {[kind |-> "neterr", StatusCode |-> 0, Status |-> <<>>, CldError |-> <<>>, body |-> Body("invalid")],
     HTTP(404, <<"4","0","4"," ","N","o","t"," ","F","o","u","n","d">>, <<>>, Body("invalid")),
     HTTP(401, <<"4","0","1"," ","U","n","a","u","t","h","o","r","i","z","e","d">>, <<"I","n","v","a","l","i","d"," ","S","i","g","n","a","t","u","r","e">>, Body("object")),
     HTTP(201, <<"2","0","1"," ","C","r","e","a","t","e","d">>, <<>>, FullBody),
     OK(Body("invalid")), OK(Body("null")), OK(Body("array")), OK(Body("object")), OK(FullBody),
     OK([Body("object") EXCEPT !.public_id = JStr(<<"x">>)]),
     OK([Body("object") EXCEPT !.secure_url = JNull]),
     OK([Body("object") EXCEPT !.secure_url = JNum(5)]),
     OK([FullBody EXCEPT !.version = JStr(<<"1">>)]),
     OK([FullBody EXCEPT !.version = JNum(-1)])}
    \cup {OK([Body("object") EXCEPT !.secure_url = JStr(u)]) :
            u \in {SecureURL, <<>>, <<":","b","a","d">>, <<"h","t","t","p","s",":","/","/","r","e","s",".","c","l","o","u","d","i","n","a","r","y",".","c","o","m","/","%","z","z">>,
                   <<"H","T","T","P","S",":","/","/","r","e","s",".","c","l","o","u","d","i","n","a","r","y",".","c","o","m","/","c","/","i","m","a","g","e","/","u","p","l","o","a","d","/","v","1","/","x",".","p","n","g">>}}

\* The handles the upload calls run on.
UploadConns ==
    {TestConn,
     [raw |-> ConnString(<<"c","l","o","u","d","i","n","a","r","y">>, <<"A","1">>, <<"s","@","1">>, <<"c","-","1",".","x">>), kind |-> "wellformed",
      scheme |-> <<"c","l","o","u","d","i","n","a","r","y">>, key |-> <<"A","1">>, secret |-> <<"s","@","1">>, cloud |-> <<"c","-","1",".","x">>]}

InitUpload ==
    /\ conn \in UploadConns
    /\ dialled = TRUE
    /\ \E r \in {Dial(conn.raw)} : svc = r.svc /\ dialErr = r.err
    /\ urls = <<goldenImageURL>>
    /\ lastResize = NoResize
    /\ nResizes = 0
    /\ crashed = FALSE
    /\ now = 1000000000
    /\ bufs = <<>>
    /\ calls = [c \in Callers |-> IdleCall]
    /\ deleted = NoDelete

\* One caller, every input and every answer.
NextUpload ==
    \/ \E data \in Files : UploadImageFile(1, data)
    \/ \E URL \in SourceURLs : UploadImageURL(1, URL)
    \/ AddImageFile(1)
    \/ AddImageURL(1)
    \/ Send(1)
    \/ \E resp \in Responses : Receive(1, resp)
    \/ Tick

SpecUpload == InitUpload /\ [][NextUpload]_vars

\* The answer used when callers interleave.
ConcResponses == {OK(FullBody)}

\* The handle Dial returns for the tests' connection string.
TestService == Dial(TestConn.raw).svc

InitConc ==
    /\ conn = TestConn
    /\ dialled = TRUE
    /\ \E r \in {Dial(TestConn.raw)} : svc = r.svc /\ dialErr = r.err
    /\ urls = <<goldenImageURL>>
    /\ lastResize = NoResize
    /\ nResizes = 0
    /\ crashed = FALSE
    /\ now = 1000000000
    /\ bufs = <<>>
    /\ calls = [c \in Callers |-> IdleCall]
    /\ deleted = NoDelete

\* Every caller, with UploadImageFile, UploadImageURL, GetResizedImageURL and Delete interleaved.
NextConc ==
    \/ \E c \in Callers : UploadImageFile(c, [content |-> <<"P","N","G">>, fails |-> FALSE])
    \/ \E c \in Callers : UploadImageURL(c, [EmptyURL EXCEPT !.Scheme = <<"h","t","t","p","s">>, !.Host = <<"h">>, !.Path = <<"/","a"," ","b",".","p","n","g">>])
    \/ \E c \in Callers : AddImageFile(c)
    \/ \E c \in Callers : AddImageURL(c)
    \/ \E c \in Callers : Send(c)
    \/ \E c \in Callers, resp \in ConcResponses : Receive(c, resp)
    \/ (nResizes = 0 /\ Resize(1, 100, 200))
    \/ DeleteStep
    \/ Tick

SpecConc == InitConc /\ [][NextConc]_vars

(***************************************************************************)
(* C5: in every upload request the signature field is the hex SHA-1 of     *)
(* "timestamp=" + T + apiSecret, with T the decimal value written to the   *)
(* same request's timestamp field and apiSecret the handle's secret, and   *)
(* nothing between T and the secret.                                       *)
(***************************************************************************)
C5_SignatureOfTimestampAndSecret ==
    \A c \in Callers :
        calls[c].sent # Nil =>
            LET parts == calls[c].sent.parts
            IN  /\ parts[2].name = <<"t","i","m","e","s","t","a","m","p">>
                /\ parts[3].name = <<"s","i","g","n","a","t","u","r","e">>
                /\ calls[c].at = 1000000000 => parts[2].body = <<"1","0","0","0","0","0","0","0","0","0">>
                /\ calls[c].at = 1000000001 => parts[2].body = <<"1","0","0","0","0","0","0","0","0","1">>
                /\ parts[3].body = SHA1Hex(<<"t","i","m","e","s","t","a","m","p","=">> \o parts[2].body \o svc.apiSecret)

\* The test vector: secret "secret" at time 1000000000.
C5_Witness ==
    /\ svc.apiSecret = <<"s","e","c","r","e","t">>
    /\ calls[1].sent # Nil
    /\ calls[1].sent.parts[2].body = <<"1","0","0","0","0","0","0","0","0","0">>
    /\ calls[1].sent.parts[3].body = SHA1Hex(<<"t","i","m","e","s","t","a","m","p","=","1","0","0","0","0","0","0","0","0","0","s","e","c","r","e","t">>)

(***************************************************************************)
(* C6: every request body handed to the transport holds exactly four       *)
(* multipart fields: api_key, timestamp and signature, each once, and one  *)
(* payload field named file, which holds the whole stream in file mode and *)
(* the text of the source URL in URL mode.                                 *)
(***************************************************************************)
C6_FourFieldsOnePayload ==
    \A c \in Callers :
        calls[c].sent # Nil =>
            LET parts == calls[c].sent.parts
            IN  /\ Len(parts) = 4
                /\ \A n \in {<<"a","p","i","_","k","e","y">>, <<"t","i","m","e","s","t","a","m","p">>, <<"s","i","g","n","a","t","u","r","e">>, <<"f","i","l","e">>} :
                       Cardinality({i \in 1..Len(parts) : parts[i].name = n}) = 1
                /\ parts[1].body = svc.apiKey
                /\ parts[4].name = <<"f","i","l","e">>
                /\ calls[c].op = "file" => (parts[4].file /\ parts[4].body = calls[c].file.content)
                /\ calls[c].op = "url" => (~parts[4].file /\ parts[4].body = URLString(calls[c].src))
                /\ calls[c].sent.closed
                /\ ~calls[c].file.fails

\* A request in URL mode has been sent whose source URL needed escaping.
C6_Witness ==
    /\ calls[1].sent # Nil
    /\ calls[1].op = "url"
    /\ calls[1].sent.parts[4].body = <<"h","t","t","p","s",":","/","/","h","/","a","%","2","0","b",".","p","n","g">>

(***************************************************************************)
(* C7 as stated: a transport call that receives HTTP 200 with a JSON body  *)
(* carrying secure_url = U returns a URL equal to U and no error; one that *)
(* receives any other status returns no URL and an error that contains the *)
(* HTTP status text.                                                       *)
(***************************************************************************)
C7_AnyBodyWithSecureURL ==
    \A c \in Callers :
        (calls[c].pc = "done" /\ calls[c].resp.kind = "http") =>
            LET resp == calls[c].resp
            IN  /\ (resp.StatusCode = 200 /\ resp.body.kind = "object" /\ resp.body.secure_url.t = "string") =>
                       /\ calls[c].err = Nil
                       /\ calls[c].ret # Nil
                       /\ URLString(calls[c].ret) = resp.body.secure_url.s
                /\ resp.StatusCode # 200 =>
                       /\ calls[c].ret = Nil
                       /\ calls[c].err # Nil
                       /\ Contains(calls[c].err.msg, resp.Status)

(***************************************************************************)
(* C7 amended: a transport call that receives HTTP 200 with a JSON object  *)
(* whose fields have the types of the upload result and whose secure_url   *)
(* is a string U that url.Parse accepts returns no error and the URL       *)
(* url.Parse yields for U, which prints as U when U is written the way     *)
(* URL.String writes it; one that receives any other status returns no     *)
(* URL and an error that contains the HTTP status text.                    *)
(***************************************************************************)
C7_DecodableBodyWithSecureURL ==
    \A c \in Callers :
        (calls[c].pc = "done" /\ calls[c].resp.kind = "http") =>
            LET resp == calls[c].resp
                U == resp.body.secure_url.s
            IN  /\ (/\ resp.StatusCode = 200 /\ resp.body.kind = "object"
                    /\ resp.body.secure_url.t = "string"
                    /\ FitsString(resp.body.public_id) /\ FitsUint(resp.body.version)
                    /\ FitsString(resp.body.format) /\ FitsString(resp.body.resource_type)
                    /\ FitsInt(resp.body.bytes)
                    /\ Parse(U).err = NoErr) =>
                       /\ calls[c].err = Nil
                       /\ calls[c].ret = Parse(U).url
                       /\ URLString(Parse(U).url) = U => URLString(calls[c].ret) = U
                       /\ U = SecureURL => URLString(calls[c].ret) = SecureURL
                /\ resp.StatusCode # 200 =>
                       /\ calls[c].ret = Nil
                       /\ calls[c].err # Nil
                       /\ Contains(calls[c].err.msg, resp.Status)

\* The whole upload result has been received and its secure URL returned.
C7_Witness ==
    /\ calls[1].pc = "done"
    /\ calls[1].resp = OK(FullBody)
    /\ calls[1].err = Nil
    /\ calls[1].ret # Nil
    /\ URLString(calls[1].ret) = <<"h","t","t","p","s",":","/","/","r","e","s",".","c","l","o","u","d","i","n","a","r","y",".","c","o","m","/","c","/","i","m","a","g","e","/","u","p","l","o","a","d","/","v","1","/","x",".","p","n","g">>

(***************************************************************************)
(* C8: on an HTTP 200 response the transport fails with a decoding error   *)
(* and returns no URL whenever the body is not valid JSON or lacks the     *)
(* field secure_url; a 200 response never yields a successful result with  *)
(* an empty delivery URL.                                                  *)
(***************************************************************************)
C8_NoSuccessWithoutSecureURL ==
    \A c \in Callers :
        (calls[c].pc = "done" /\ calls[c].resp.kind = "http" /\ calls[c].resp.StatusCode = 200) =>
            /\ (calls[c].resp.body.kind # "object" \/ calls[c].resp.body.secure_url.t = "absent") =>
                   (calls[c].ret = Nil /\ calls[c].err # Nil)
            /\ calls[c].err = Nil => (calls[c].ret # Nil /\ URLString(calls[c].ret) # <<>>)

(***************************************************************************)
(* C9: under any interleaving of concurrent UploadImageFile,               *)
(* UploadImageURL, GetResizedImageURL and Delete calls on one handle, the  *)
(* handle's cloud name, key, secret and upload endpoint keep the values    *)
(* Dial set, and each upload call has a request of its own: its buffer     *)
(* holds, and the body it sends contains, only the fields that call wrote. *)
(***************************************************************************)
C9_HandleFixedRequestsPrivate ==
    /\ conn = TestConn
    /\ svc = TestService
    /\ \A c \in Callers :
           /\ calls[c].req # 0 => bufs[calls[c].req].parts = calls[c].wrote
           /\ calls[c].sent # Nil => calls[c].sent.parts = calls[c].wrote
           /\ \A d \in Callers : (c # d /\ calls[c].req # 0) => calls[c].req # calls[d].req

\* Two calls of different kinds are both with the transport, signed at different times, after
\* a GetResizedImageURL and a Delete call ran in between.
C9_Witness ==
    /\ calls[1].pc = "sent" /\ calls[2].pc = "sent"
    /\ calls[1].op = "file" /\ calls[2].op = "url"
    /\ calls[1].at # calls[2].at
    /\ lastResize.called
    /\ deleted.called

====
